---- MODULE Spec2Model ----
(***************************************************************************)
(* Model of the holiday optimizer engine                                  *)
(* (src/src/services/optimizer.improved.ts).                              *)
(*                                                                         *)
(* Conventions.                                                            *)
(*  - A calendar date is its day ordinal: an integer counting days, with   *)
(*    ordinal 0 a Sunday, so getDay(d) = d % 7.  The 'YYYY-MM-DD' string   *)
(*    of a date and the date are in bijection for well-formed strings, so  *)
(*    a well-formed date string is represented by the same ordinal.        *)
(*  - The calendar array is a function on 0 .. N-1 (the source's indices). *)
(*  - Candidate lists and break lists are sequences (1-based); an index    *)
(*    idx of the source's candidate array is position idx + 1 here.        *)
(*  - A reference to a Day object (segmentDays, brk.days) is the day's     *)
(*    calendar index: the objects are shared with the calendar array.      *)
(***************************************************************************)
EXTENDS Integers, Sequences, FiniteSets, TLC

(***************************************************************************)
(* Bounds of the model.                                                    *)
(***************************************************************************)
ExtraDays == 1
MaxQuota == 8

\* An absent (undefined) name, and an absent date or weekday.
Undefined == "undefined"

NoDate == 0 - 1

Strategies ==
  {"longWeekends", "miniBreaks", "weekLongBreaks", "extendedVacations", "balanced"}

\* Values of params.strategy outside the five names: absent, or another string.
UnrecognisedStrategies == {Undefined, "other"}

(***************************************************************************)
(* Helper functions                                                        *)
(***************************************************************************)
Min(a, b) == IF a < b THEN a ELSE b

RECURSIVE SumSeq(_)
SumSeq(s) == IF s = <<>> THEN 0 ELSE Head(s) + SumSeq(Tail(s))

RECURSIVE Flatten(_)
Flatten(ss) == IF ss = <<>> THEN <<>> ELSE Head(ss) \o Flatten(Tail(ss))

getDay(d) == d % 7

formatDate(d) == d

isFixedOff(day) == day.isWeekend \/ day.isPublicHoliday \/ day.isCompanyDayOff

\* A mutation of getDynamicSpacing: one spacing for every strategy.
getDynamicSpacingAlways7(strategy) == 7

getDynamicSpacing(strategy) ==
  CASE strategy = "longWeekends" -> 7
    [] strategy = "miniBreaks" -> 14
    [] strategy = "weekLongBreaks" -> 21
    [] strategy = "extendedVacations" -> 30
    [] OTHER -> 21

\* A mutation of getStrategyParams: no default case, so an unrecognised
\* strategy leaves the range of the first case.
getStrategyParamsNoDefault(strategy) ==
  CASE strategy = "miniBreaks" -> [minBreak |-> 5, maxBreak |-> 6]
    [] strategy = "weekLongBreaks" -> [minBreak |-> 7, maxBreak |-> 9]
    [] strategy = "extendedVacations" -> [minBreak |-> 10, maxBreak |-> 15]
    [] strategy = "balanced" -> [minBreak |-> 3, maxBreak |-> 15]
    [] OTHER -> [minBreak |-> 3, maxBreak |-> 4]

getStrategyParams(strategy) ==
  CASE strategy = "longWeekends" -> [minBreak |-> 3, maxBreak |-> 4]
    [] strategy = "miniBreaks" -> [minBreak |-> 5, maxBreak |-> 6]
    [] strategy = "weekLongBreaks" -> [minBreak |-> 7, maxBreak |-> 9]
    [] strategy = "extendedVacations" -> [minBreak |-> 10, maxBreak |-> 15]
    [] OTHER -> [minBreak |-> 3, maxBreak |-> 15]

(***************************************************************************)
(* Build Full Calendar                                                     *)
(*                                                                         *)
(* Instants are counted in half days.  The loop variable d is the local    *)
(* midnight of a date; new Date('YYYY-MM-DD') is the UTC midnight of the   *)
(* date.  p.tz is the local offset from UTC in half days (-1 west of UTC,  *)
(* 0 at UTC, 1 east of UTC).                                               *)
(***************************************************************************)
TicksPerDay == 2

LocalMidnight(d, tz) == d * TicksPerDay - tz

UTCMidnight(d) == d * TicksPerDay

\* A mutation of FirstHoliday: the scan has no break, the last match stays.
RECURSIVE LastHoliday(_, _, _)
LastHoliday(holidays, dateStr, k) ==
  IF k > Len(holidays) THEN 0
  ELSE LET later == LastHoliday(holidays, dateStr, k + 1)
       IN IF later # 0 THEN later
          ELSE IF holidays[k].date = dateStr THEN k ELSE 0

\* First holiday of the list whose date equals dateStr, 0 when none.
RECURSIVE FirstHoliday(_, _, _)
FirstHoliday(holidays, dateStr, k) ==
  IF k > Len(holidays) THEN 0
  ELSE IF holidays[k].date = dateStr THEN k
  ELSE FirstHoliday(holidays, dateStr, k + 1)

DayOffMatches(dayOff, d, tz) ==
  IF dayOff.isRecurring /\ dayOff.startDate # NoDate
     /\ dayOff.endDate # NoDate /\ dayOff.weekday # NoDate
  THEN /\ LocalMidnight(d, tz) >= UTCMidnight(dayOff.startDate)
       /\ LocalMidnight(d, tz) <= UTCMidnight(dayOff.endDate)
       /\ getDay(d) = dayOff.weekday
  ELSE dayOff.date = formatDate(d)

\* First company day off of the list that matches d, 0 when none.
RECURSIVE FirstDayOff(_, _, _, _)
FirstDayOff(companyDaysOff, d, tz, k) ==
  IF k > Len(companyDaysOff) THEN 0
  ELSE IF DayOffMatches(companyDaysOff[k], d, tz) THEN k
  ELSE FirstDayOff(companyDaysOff, d, tz, k + 1)

BuildDay(p, d) ==
  LET h == FirstHoliday(p.holidays, formatDate(d), 1)
      c == FirstDayOff(p.companyDaysOff, d, p.tz, 1)
  IN [date |-> formatDate(d),
      isWeekend |-> (getDay(d) = 0 \/ getDay(d) = 6),
      isPublicHoliday |-> (h # 0),
      publicHolidayName |-> IF h # 0 THEN p.holidays[h].name ELSE Undefined,
      isCompanyDayOff |-> (c # 0),
      companyDayName |-> IF c # 0 THEN p.companyDaysOff[c].name ELSE Undefined,
      isCTO |-> FALSE,
      isPartOfBreak |-> FALSE]

\* p.startOfYear and p.endOfYear are the ordinals of the first day of the
\* horizon (today or January 1) and of December 31 of the target year.
buildCalendar(p) ==
  [i \in 0 .. (p.endOfYear - p.startOfYear) |-> BuildDay(p, p.startOfYear + i)]

CalLen(calendar) == Cardinality(DOMAIN calendar)

(***************************************************************************)
(* Generate Candidate Segments                                             *)
(***************************************************************************)
\* A mutation of CountCTO: every day of the window is counted.
CountCTOAllDays(calendar, i, j) == j - i + 1

RECURSIVE CountCTO(_, _, _)
CountCTO(calendar, i, j) ==
  IF i > j THEN 0
  ELSE (IF isFixedOff(calendar[i]) THEN 0 ELSE 1) + CountCTO(calendar, i + 1, j)

MakeCandidate(calendar, i, L) ==
  [startIdx |-> i,
   endIdx |-> i + L - 1,
   totalDays |-> L,
   ctoUsed |-> CountCTO(calendar, i, i + L - 1),
   startDate |-> calendar[i].date,
   endDate |-> calendar[i + L - 1].date,
   segmentDays |-> [k \in 1 .. L |-> i + k - 1]]

\* A mutation of HasCTO: windows that cost no quota are kept too.
HasCTOOrNone(ctoUsed) == ctoUsed >= 0

\* Whether generateCandidateSegments keeps a window.
HasCTO(ctoUsed) == ctoUsed > 0

\* The inner loop over L for one start index i.
RECURSIVE CandidatesFrom(_, _, _, _)
CandidatesFrom(calendar, i, L, maxBreak) ==
  IF L > maxBreak \/ i + L - 1 >= CalLen(calendar) THEN <<>>
  ELSE LET candidate == MakeCandidate(calendar, i, L)
       IN (IF HasCTO(candidate.ctoUsed) THEN <<candidate>> ELSE <<>>)
          \o CandidatesFrom(calendar, i, L + 1, maxBreak)

generateCandidateSegments(calendar, minBreak, maxBreak) ==
  Flatten([k \in 1 .. CalLen(calendar) |->
             CandidatesFrom(calendar, k - 1, minBreak, maxBreak)])

MaxStartIdx(segs) ==
  IF segs = <<>> THEN 0 - 1
  ELSE LET starts == {segs[k].startIdx : k \in 1 .. Len(segs)}
       IN CHOOSE m \in starts : \A x \in starts : x <= m

\* Array.prototype.sort with the comparator a.startIdx - b.startIdx: a stable
\* sort by startIdx.
SortByStartIdx(segs) ==
  Flatten([k \in 1 .. (MaxStartIdx(segs) + 1) |->
             SelectSeq(segs, LAMBDA s : s.startIdx = k - 1)])

(***************************************************************************)
(* Prune Candidate Segments                                                *)
(***************************************************************************)
\* Keys of the Map 'grouped' in insertion order: the distinct startIdx values
\* in order of first appearance.
GroupKeys(segs) ==
  LET positions == 1 .. Len(segs)
      PositionsOf(x) == {k \in positions : segs[k].startIdx = x}
      FirstOf(x) == CHOOSE k \in PositionsOf(x) : \A j \in PositionsOf(x) : k <= j
      firsts == {FirstOf(x) : x \in {segs[k].startIdx : k \in positions}}
      ordered == SelectSeq([k \in positions |-> k], LAMBDA k : k \in firsts)
  IN [m \in 1 .. Len(ordered) |-> segs[ordered[m]].startIdx]

\* A mutation of Dominates: the other segment must cost less.
DominatesAtLowerCost(other, seg) ==
  /\ other.endIdx >= seg.endIdx
  /\ other.ctoUsed < seg.ctoUsed
  /\ other.totalDays >= seg.totalDays

Dominates(other, seg) ==
  /\ other.endIdx >= seg.endIdx
  /\ other.ctoUsed <= seg.ctoUsed
  /\ other.totalDays >= seg.totalDays

\* The members of a group that no other member (another position of the
\* group: the source compares object identity) dominates.
NonDominated(group) ==
  Flatten([a \in 1 .. Len(group) |->
             IF \E b \in 1 .. Len(group) : b # a /\ Dominates(group[b], group[a])
             THEN <<>> ELSE <<group[a]>>])

pruneCandidateSegments(segments, availableCTO) ==
  LET filtered == SelectSeq(segments, LAMBDA s : s.ctoUsed <= availableCTO)
      keys == GroupKeys(filtered)
      pruned == Flatten([g \in 1 .. Len(keys) |->
                  NonDominated(SelectSeq(filtered,
                                 LAMBDA s : s.startIdx = keys[g]))])
  IN SortByStartIdx(pruned)

\* lo, hi and the result are indices of the source's array (0-based).
RECURSIVE BinarySearchLoop(_, _, _, _)
BinarySearchLoop(candidates, requiredStart, lo, hi) ==
  IF lo < hi
  THEN LET mid == (lo + hi) \div 2
       IN IF candidates[mid + 1].startIdx < requiredStart
          THEN BinarySearchLoop(candidates, requiredStart, mid + 1, hi)
          ELSE BinarySearchLoop(candidates, requiredStart, lo, mid)
  ELSE lo

binarySearch(candidates, requiredStart, low) ==
  BinarySearchLoop(candidates, requiredStart, low, Len(candidates))

(***************************************************************************)
(* Dynamic Programming Exhaustive Search                                   *)
(*                                                                         *)
(* The memo table only caches dp, whose result is a function of its three  *)
(* arguments (the key joins them with '-', and only the initial call has a *)
(* negative component), so it is left out.                                 *)
(***************************************************************************)
EmptySolution == [totalDaysOff |-> 0, segments |-> <<>>, totalCTOUsed |-> 0]

\* A mutation of Improves: an equal total replaces the current best.
ImprovesOrTies(total, best) == total >= best.totalDaysOff

\* Whether the loop of dp keeps 'total' in place of the current best.
Improves(total, best) == total > best.totalDaysOff

\* A mutation of Skipped: the quota is not looked at.
SkippedIgnoringQuota(candidate, requiredStart, usedCTO, availableCTO) ==
  candidate.startIdx < requiredStart

\* Whether the loop of dp skips the candidate.
Skipped(candidate, requiredStart, usedCTO, availableCTO) ==
  \/ candidate.startIdx < requiredStart
  \/ usedCTO + candidate.ctoUsed > availableCTO

RECURSIVE dp(_, _, _, _, _, _)
RECURSIVE dpLoop(_, _, _, _, _, _, _)
\* The for loop of dp over the array indices lo .. hi - 1.  The loop replaces
\* its best solution when a candidate improves on it, so its result over a
\* range is the result over the first half unless the result over the second
\* half improves on that; it is evaluated by halves, which keeps the depth of
\* the evaluation logarithmic in the length of the list.
dpLoop(candidates, availableCTO, spacing, lo, hi, requiredStart, usedCTO) ==
  IF lo >= hi THEN EmptySolution
  ELSE IF hi = lo + 1
  THEN LET candidate == candidates[lo + 1]
       IN IF Skipped(candidate, requiredStart, usedCTO, availableCTO)
          THEN EmptySolution
          ELSE LET res == dp(candidates, availableCTO, spacing, lo + 1,
                             candidate.endIdx, usedCTO + candidate.ctoUsed)
                   total == candidate.totalDays + res.totalDaysOff
               IN IF Improves(total, EmptySolution)
                  THEN [totalDaysOff |-> total,
                        segments |-> <<candidate>> \o res.segments,
                        totalCTOUsed |-> candidate.ctoUsed + res.totalCTOUsed]
                  ELSE EmptySolution
  ELSE LET mid == (lo + hi) \div 2
           first == dpLoop(candidates, availableCTO, spacing, lo, mid,
                           requiredStart, usedCTO)
           second == dpLoop(candidates, availableCTO, spacing, mid, hi,
                            requiredStart, usedCTO)
       IN IF Improves(second.totalDaysOff, first) THEN second ELSE first

dp(candidates, availableCTO, spacing, idx, lastEnd, usedCTO) ==
  IF idx >= Len(candidates) THEN EmptySolution
  ELSE LET requiredStart == lastEnd + spacing
           nextIdx == binarySearch(candidates, requiredStart, idx)
       IN dpLoop(candidates, availableCTO, spacing, nextIdx, Len(candidates),
                 requiredStart, usedCTO)

dpExhaustiveSearch(candidates, availableCTO, spacing) ==
  dp(candidates, availableCTO, spacing, 0, 0 - 1, 0)

(***************************************************************************)
(* Forced Extension and Additional Segments                                *)
(***************************************************************************)
\* A mutation of MarkCTO: the day is not put in the break.
MarkCTOOnly(calendar, i) ==
  [calendar EXCEPT ![i].isCTO = TRUE]

\* A mutation of MarkCTO: the day is flagged as a company day off as well.
MarkCTOAsCompanyDay(calendar, i) ==
  [calendar EXCEPT ![i].isCTO = TRUE, ![i].isPartOfBreak = TRUE,
                   ![i].isCompanyDayOff = TRUE]

MarkCTO(calendar, i) ==
  [calendar EXCEPT ![i].isCTO = TRUE, ![i].isPartOfBreak = TRUE]

\* Array.prototype.findIndex on the date: the first index, or -1.
FindIndex(calendar, date) ==
  LET hits == {i \in DOMAIN calendar : calendar[i].date = date}
  IN IF hits = {} THEN 0 - 1 ELSE CHOOSE i \in hits : \A j \in hits : i <= j

\* A mutation of Taken: a day of another break does not stop the extension.
TakenNever(nextDay) == FALSE

\* Whether forceExtendSegments stops at nextDay because a break holds it.
Taken(nextDay) == nextDay.isPartOfBreak

\* A mutation of Extendable: a fixed-off day is taken like a workday.
ExtendableAlways(nextDay) == TRUE

\* Whether forceExtendSegments spends a day of quota on nextDay.
Extendable(nextDay) == ~isFixedOff(nextDay)

\* The while loop of forceExtendSegments for one break.
RECURSIVE ExtendLoop(_, _, _, _)
ExtendLoop(calendar, brk, remainingCTO, endIdx) ==
  IF remainingCTO > 0 /\ endIdx < CalLen(calendar) - 1
  THEN LET nextDay == calendar[endIdx + 1]
       IN IF Taken(nextDay)
          THEN [calendar |-> calendar, brk |-> brk, remainingCTO |-> remainingCTO]
          ELSE IF Extendable(nextDay)
          THEN ExtendLoop(MarkCTO(calendar, endIdx + 1),
                          [brk EXCEPT !.days = Append(@, endIdx + 1),
                                      !.totalDays = @ + 1,
                                      !.ctoDays = @ + 1,
                                      !.endDate = nextDay.date],
                          remainingCTO - 1, endIdx + 1)
          ELSE [calendar |-> calendar, brk |-> brk, remainingCTO |-> remainingCTO]
  ELSE [calendar |-> calendar, brk |-> brk, remainingCTO |-> remainingCTO]

\* One iteration of the for loop of forceExtendSegments.
ExtendBreak(calendar, brk, remainingCTO) ==
  ExtendLoop(calendar, brk, remainingCTO, FindIndex(calendar, brk.endDate))

\* days.filter(day => day.<flag>).length for a list of day references.
\* A mutation of CountWeekends: the filter keeps every day.
CountWeekendsUnfiltered(calendar, days) == Len(days)

CountPublicHolidays(calendar, days) ==
  Cardinality({k \in 1 .. Len(days) : calendar[days[k]].isPublicHoliday})

CountWeekends(calendar, days) ==
  Cardinality({k \in 1 .. Len(days) : calendar[days[k]].isWeekend})

CountCompanyDaysOff(calendar, days) ==
  Cardinality({k \in 1 .. Len(days) : calendar[days[k]].isCompanyDayOff})

\* A mutation of ForcedBreak: totalDays spans the first to the last day.
ForcedBreakSpanning(calendar, forcedSegment) ==
  [startDate |-> calendar[forcedSegment[1]].date,
   endDate |-> calendar[forcedSegment[Len(forcedSegment)]].date,
   days |-> forcedSegment,
   totalDays |-> forcedSegment[Len(forcedSegment)] - forcedSegment[1] + 1,
   ctoDays |-> Len(forcedSegment),
   publicHolidays |-> CountPublicHolidays(calendar, forcedSegment),
   weekends |-> CountWeekends(calendar, forcedSegment),
   companyDaysOff |-> CountCompanyDaysOff(calendar, forcedSegment)]

ForcedBreak(calendar, forcedSegment) ==
  [startDate |-> calendar[forcedSegment[1]].date,
   endDate |-> calendar[forcedSegment[Len(forcedSegment)]].date,
   days |-> forcedSegment,
   totalDays |-> Len(forcedSegment),
   ctoDays |-> Len(forcedSegment),
   publicHolidays |-> CountPublicHolidays(calendar, forcedSegment),
   weekends |-> CountWeekends(calendar, forcedSegment),
   companyDaysOff |-> CountCompanyDaysOff(calendar, forcedSegment)]

\* The inner while loop of addForcedSegments.
RECURSIVE FillInner(_, _, _, _)
FillInner(calendar, i, remainingCTO, forcedSegment) ==
  IF i < CalLen(calendar) /\ ~calendar[i].isPartOfBreak /\ remainingCTO > 0
  THEN IF ~isFixedOff(calendar[i])
       THEN FillInner(MarkCTO(calendar, i), i + 1, remainingCTO - 1,
                      Append(forcedSegment, i))
       ELSE FillInner(calendar, i + 1, remainingCTO, forcedSegment)
  ELSE [calendar |-> calendar, i |-> i, remainingCTO |-> remainingCTO,
        forcedSegment |-> forcedSegment]

\* A mutation of FillOuter: the loop ends after its first forced segment.
RECURSIVE FillOuterOnce(_, _, _, _)
FillOuterOnce(calendar, i, remainingCTO, forcedBreaks) ==
  IF i < CalLen(calendar) /\ remainingCTO > 0
  THEN IF ~calendar[i].isPartOfBreak /\ ~isFixedOff(calendar[i])
       THEN LET r == FillInner(calendar, i, remainingCTO, <<>>)
            IN [calendar |-> r.calendar,
                forcedBreaks |-> Append(forcedBreaks,
                                        ForcedBreak(r.calendar, r.forcedSegment))]
       ELSE FillOuterOnce(calendar, i + 1, remainingCTO, forcedBreaks)
  ELSE [calendar |-> calendar, forcedBreaks |-> forcedBreaks]

\* The outer while loop of addForcedSegments.
RECURSIVE FillOuter(_, _, _, _)
FillOuter(calendar, i, remainingCTO, forcedBreaks) ==
  IF i < CalLen(calendar) /\ remainingCTO > 0
  THEN IF ~calendar[i].isPartOfBreak /\ ~isFixedOff(calendar[i])
       THEN LET r == FillInner(calendar, i, remainingCTO, <<>>)
            IN FillOuter(r.calendar, r.i, r.remainingCTO,
                         IF Len(r.forcedSegment) > 0
                         THEN Append(forcedBreaks,
                                     ForcedBreak(r.calendar, r.forcedSegment))
                         ELSE forcedBreaks)
       ELSE FillOuter(calendar, i + 1, remainingCTO, forcedBreaks)
  ELSE [calendar |-> calendar, forcedBreaks |-> forcedBreaks]

\* A mutation of addForcedSegments: the scan starts at index 1.
addForcedSegmentsFromOne(calendar, remainingCTO) ==
  FillOuter(calendar, 1, remainingCTO, <<>>)

addForcedSegments(calendar, remainingCTO) ==
  FillOuter(calendar, 0, remainingCTO, <<>>)

(***************************************************************************)
(* Main Optimizer Function                                                 *)
(***************************************************************************)
\* Step 3 of optimizeDays: the candidate list, sorted by startIdx.
GeneratedSegments(p, calendar) ==
  LET sp == getStrategyParams(p.strategy)
      generated ==
        IF p.strategy = "balanced"
        THEN generateCandidateSegments(calendar, 3, 4)
             \o generateCandidateSegments(calendar, 5, 6)
             \o generateCandidateSegments(calendar, 7, 9)
             \o generateCandidateSegments(calendar, 10, 15)
        ELSE generateCandidateSegments(calendar, sp.minBreak, sp.maxBreak)
  IN SortByStartIdx(generated)

\* Step 3 and 4 of optimizeDays: the pruned candidate list.
CandidateSegments(p, calendar) ==
  pruneCandidateSegments(GeneratedSegments(p, calendar), p.numberOfDays)

\* A mutation of MarkSegmentDays: the days join the break, none is marked CTO.
MarkSegmentDaysNoCTO(calendar, seg) ==
  [i \in DOMAIN calendar |->
     IF seg.startIdx <= i /\ i <= seg.endIdx
     THEN [calendar[i] EXCEPT !.isPartOfBreak = TRUE]
     ELSE calendar[i]]

\* A mutation of MarkSegmentDays: every day of the segment is marked CTO.
MarkSegmentDaysAllCTO(calendar, seg) ==
  [i \in DOMAIN calendar |->
     IF seg.startIdx <= i /\ i <= seg.endIdx
     THEN [calendar[i] EXCEPT !.isPartOfBreak = TRUE, !.isCTO = TRUE]
     ELSE calendar[i]]

\* Step 6, the marking of one chosen segment on the calendar.
MarkSegmentDays(calendar, seg) ==
  [i \in DOMAIN calendar |->
     IF seg.startIdx <= i /\ i <= seg.endIdx
     THEN [calendar[i] EXCEPT !.isPartOfBreak = TRUE,
                              !.isCTO = IF ~isFixedOff(calendar[i]) THEN TRUE ELSE @]
     ELSE calendar[i]]

\* A mutation of SegmentBreak: the days list leaves out the last day.
SegmentBreakShortList(calendar, seg) ==
  [startDate |-> seg.startDate,
   endDate |-> seg.endDate,
   days |-> SubSeq(seg.segmentDays, 1, Len(seg.segmentDays) - 1),
   totalDays |-> seg.totalDays,
   ctoDays |-> seg.ctoUsed,
   publicHolidays |-> CountPublicHolidays(calendar, seg.segmentDays),
   weekends |-> CountWeekends(calendar, seg.segmentDays),
   companyDaysOff |-> CountCompanyDaysOff(calendar, seg.segmentDays)]

\* Step 6, the break built from a chosen segment.
SegmentBreak(calendar, seg) ==
  [startDate |-> seg.startDate,
   endDate |-> seg.endDate,
   days |-> seg.segmentDays,
   totalDays |-> seg.totalDays,
   ctoDays |-> seg.ctoUsed,
   publicHolidays |-> CountPublicHolidays(calendar, seg.segmentDays),
   weekends |-> CountWeekends(calendar, seg.segmentDays),
   companyDaysOff |-> CountCompanyDaysOff(calendar, seg.segmentDays)]

\* breaks.reduce((acc, br) => acc + br.ctoDays, 0)
UsedCTO(brks) == SumSeq([k \in 1 .. Len(brks) |-> brks[k].ctoDays])

\* A mutation of ComputeStats: totalDaysOff sums the CTO days.
ComputeStatsCTOOnly(brks) ==
  [totalCTODays |-> SumSeq([k \in 1 .. Len(brks) |-> brks[k].ctoDays]),
   totalPublicHolidays |-> SumSeq([k \in 1 .. Len(brks) |-> brks[k].publicHolidays]),
   totalNormalWeekends |-> SumSeq([k \in 1 .. Len(brks) |-> brks[k].weekends]),
   totalCompanyDaysOff |-> SumSeq([k \in 1 .. Len(brks) |-> brks[k].companyDaysOff]),
   totalDaysOff |-> SumSeq([k \in 1 .. Len(brks) |-> brks[k].ctoDays]),
   totalExtendedWeekends |-> SumSeq([k \in 1 .. Len(brks) |-> brks[k].ctoDays])]

\* Step 8.
ComputeStats(brks) ==
  [totalCTODays |-> SumSeq([k \in 1 .. Len(brks) |-> brks[k].ctoDays]),
   totalPublicHolidays |-> SumSeq([k \in 1 .. Len(brks) |-> brks[k].publicHolidays]),
   totalNormalWeekends |-> SumSeq([k \in 1 .. Len(brks) |-> brks[k].weekends]),
   totalCompanyDaysOff |-> SumSeq([k \in 1 .. Len(brks) |-> brks[k].companyDaysOff]),
   totalDaysOff |-> SumSeq([k \in 1 .. Len(brks) |-> brks[k].totalDays]),
   totalExtendedWeekends |-> SumSeq([k \in 1 .. Len(brks) |-> brks[k].ctoDays])]

NoStats ==
  [totalCTODays |-> 0, totalPublicHolidays |-> 0, totalNormalWeekends |-> 0,
   totalCompanyDaysOff |-> 0, totalDaysOff |-> 0, totalExtendedWeekends |-> 0]

\* Step 6 for the segments k .. Len(segments).
RECURSIVE MarkSegments(_, _, _, _)
MarkSegments(calendar, segments, k, brks) ==
  IF k > Len(segments) THEN [calendar |-> calendar, breaks |-> brks]
  ELSE LET cal == MarkSegmentDays(calendar, segments[k])
       IN MarkSegments(cal, segments, k + 1,
                       Append(brks, SegmentBreak(cal, segments[k])))

\* forceExtendSegments: the loop over the breaks from position k on.
RECURSIVE forceExtendSegments(_, _, _, _)
forceExtendSegments(calendar, brks, remainingCTO, k) ==
  IF k > Len(brks)
  THEN [calendar |-> calendar, breaks |-> brks, remainingCTO |-> remainingCTO]
  ELSE LET r == ExtendBreak(calendar, brks[k], remainingCTO)
       IN forceExtendSegments(r.calendar, [brks EXCEPT ![k] = r.brk],
                              r.remainingCTO, k + 1)

\* The while loop of step 7.
RECURSIVE ForcedLoop(_, _, _, _, _)
ForcedLoop(calendar, brks, remainingCTO, prevRemainingCTO, availableCTO) ==
  IF remainingCTO > 0 /\ remainingCTO < prevRemainingCTO
  THEN LET e == forceExtendSegments(calendar, brks, remainingCTO, 1)
           f == addForcedSegments(e.calendar, e.remainingCTO)
           all == e.breaks \o f.forcedBreaks
       IN ForcedLoop(f.calendar, all, availableCTO - UsedCTO(all),
                     remainingCTO, availableCTO)
  ELSE [calendar |-> calendar, breaks |-> brks]

\* optimizeDays as a function of its params: the returned days, breaks, stats.
optimizeDays(p) ==
  LET cal == buildCalendar(p)
      best == dpExhaustiveSearch(CandidateSegments(p, cal), p.numberOfDays,
                                 getDynamicSpacing(p.strategy))
      marked == MarkSegments(cal, best.segments, 1, <<>>)
      remaining == p.numberOfDays - UsedCTO(marked.breaks)
      forced == ForcedLoop(marked.calendar, marked.breaks, remaining,
                           remaining + 1, p.numberOfDays)
  IN [days |-> forced.calendar, breaks |-> forced.breaks,
      stats |-> ComputeStats(forced.breaks)]

(***************************************************************************)
(* The inputs of one invocation of optimizeDays.                           *)
(***************************************************************************)
\* Lengths of the horizon: a run of the current year starts today, so every
\* length from 1 to 366 occurs.  The longest one taken for a strategy lets the
\* DP search choose a window of each length of the strategy: the search takes
\* no window that starts before index spacing - 1.
LongHorizon(strategy) ==
  getDynamicSpacing(strategy) - 1 + getStrategyParams(strategy).maxBreak + ExtraDays

Horizons(strategy) == {2, 9, 20, LongHorizon(strategy)}

Quotas == 0 .. MaxQuota

StartDays == 0 .. 6

HolidayLists(start) ==
  { <<>>,
    <<[date |-> start + 1, name |-> "h1"]>>,
    <<[date |-> start + 8, name |-> "h2"]>>,
    <<[date |-> start + 1, name |-> "h1"], [date |-> start + 8, name |-> "h2"]>> }

SingleDayOff(date, name) ==
  [isRecurring |-> FALSE, date |-> date, startDate |-> NoDate,
   endDate |-> NoDate, weekday |-> NoDate, name |-> name]

RecurringDayOff(weekday, startDate, endDate, name) ==
  [isRecurring |-> TRUE, date |-> NoDate, startDate |-> startDate,
   endDate |-> endDate, weekday |-> weekday, name |-> name]

CompanyLists(start) ==
  { <<>>,
    <<SingleDayOff(start + 8, "c1")>>,
    <<RecurringDayOff(getDay(start + 3), start + 3, start + 10, "c2")>> }

TzOffsets(companyDaysOff) ==
  IF \E k \in 1 .. Len(companyDaysOff) : companyDaysOff[k].isRecurring
  THEN {0 - 1, 0, 1} ELSE {0}

ParamsOf(strategies) ==
  UNION { UNION { UNION { { [numberOfDays |-> q, strategy |-> st,
                             startOfYear |-> start, endOfYear |-> start + n - 1,
                             holidays |-> hs, companyDaysOff |-> cs, tz |-> tz] :
                             q \in Quotas, n \in Horizons(st),
                             hs \in HolidayLists(start), tz \in TzOffsets(cs) } :
                          st \in strategies } :
                  cs \in CompanyLists(start) } :
          start \in StartDays }

Params == ParamsOf(Strategies)

\* passes counts the iterations of the loop of step 7 (it is not a variable
\* of the source).  segments and pruned are the argument and the result of a
\* call of pruneCandidateSegments on its own.
VARIABLES params, pc, calendar, bestSolution, breaks, segI, brkI,
          remainingCTO, prevRemainingCTO, stats, passes, segments, pruned

vars == <<params, pc, calendar, bestSolution, breaks, segI, brkI,
          remainingCTO, prevRemainingCTO, stats, passes, segments, pruned>>

\* The state at the call of optimizeDays(params).
Called ==
  /\ pc = "start"
  /\ calendar = <<>>
  /\ bestSolution = EmptySolution
  /\ breaks = <<>>
  /\ segI = 1
  /\ brkI = 1
  /\ remainingCTO = 0
  /\ prevRemainingCTO = 0
  /\ stats = NoStats
  /\ passes = 0
  /\ segments = <<>>
  /\ pruned = <<>>

Init ==
  /\ params \in Params
  /\ Called

\* Steps 1 to 5: calendar, candidates, pruning and the DP search.
BuildAndSearch ==
  /\ pc = "start"
  /\ LET cal == buildCalendar(params)
     IN /\ calendar' = cal
        /\ bestSolution' = dpExhaustiveSearch(CandidateSegments(params, cal),
                             params.numberOfDays, getDynamicSpacing(params.strategy))
  /\ pc' = "mark"
  /\ UNCHANGED <<segments, pruned, params, breaks, segI, brkI, remainingCTO, prevRemainingCTO, stats,
                 passes>>

\* Step 6: one iteration of the loop over the chosen segments.
MarkSegment ==
  /\ pc = "mark"
  /\ segI <= Len(bestSolution.segments)
  /\ LET seg == bestSolution.segments[segI]
         cal == MarkSegmentDays(calendar, seg)
     IN /\ calendar' = cal
        /\ breaks' = Append(breaks, SegmentBreak(cal, seg))
  /\ segI' = segI + 1
  /\ UNCHANGED <<segments, pruned, params, pc, bestSolution, brkI, remainingCTO, prevRemainingCTO, stats,
                 passes>>

\* Step 7, before the loop.
BeginForced ==
  /\ pc = "mark"
  /\ segI > Len(bestSolution.segments)
  /\ remainingCTO' = params.numberOfDays - UsedCTO(breaks)
  /\ prevRemainingCTO' = params.numberOfDays - UsedCTO(breaks) + 1
  /\ pc' = "while"
  /\ UNCHANGED <<segments, pruned, params, calendar, bestSolution, breaks, segI, brkI, stats, passes>>

\* A mutation of LoopEnter: the loop condition without the test of progress.
LoopEnterWithoutProgress ==
  /\ pc = "while"
  /\ remainingCTO > 0
  /\ prevRemainingCTO' = remainingCTO
  /\ brkI' = 1
  /\ pc' = "extend"
  /\ passes' = passes + 1
  /\ UNCHANGED <<segments, pruned, params, calendar, bestSolution, breaks, segI,
                 remainingCTO, stats>>

\* The loop condition holds: the body starts.
LoopEnter ==
  /\ pc = "while"
  /\ remainingCTO > 0 /\ remainingCTO < prevRemainingCTO
  /\ prevRemainingCTO' = remainingCTO
  /\ brkI' = 1
  /\ pc' = "extend"
  /\ passes' = passes + 1
  /\ UNCHANGED <<segments, pruned, params, calendar, bestSolution, breaks, segI,
                 remainingCTO, stats>>

\* forceExtendSegments: one iteration of its loop over the breaks.
ForceExtendBreak ==
  /\ pc = "extend"
  /\ brkI <= Len(breaks)
  /\ LET r == ExtendBreak(calendar, breaks[brkI], remainingCTO)
     IN /\ calendar' = r.calendar
        /\ breaks' = [breaks EXCEPT ![brkI] = r.brk]
        /\ remainingCTO' = r.remainingCTO
  /\ brkI' = brkI + 1
  /\ UNCHANGED <<segments, pruned, params, pc, bestSolution, segI, prevRemainingCTO, stats, passes>>

\* addForcedSegments and the rest of the loop body.
AddForcedSegments ==
  /\ pc = "extend"
  /\ brkI > Len(breaks)
  /\ LET r == addForcedSegments(calendar, remainingCTO)
         brks == breaks \o r.forcedBreaks
     IN /\ calendar' = r.calendar
        /\ breaks' = brks
        /\ remainingCTO' = params.numberOfDays - UsedCTO(brks)
  /\ pc' = "while"
  /\ UNCHANGED <<segments, pruned, params, bestSolution, segI, brkI, prevRemainingCTO, stats, passes>>

\* The loop condition fails; step 8 and the return.
Finish ==
  /\ pc = "while"
  /\ ~(remainingCTO > 0 /\ remainingCTO < prevRemainingCTO)
  /\ stats' = ComputeStats(breaks)
  /\ pc' = "done"
  /\ UNCHANGED <<segments, pruned, params, calendar, bestSolution, breaks, segI, brkI,
                 remainingCTO, prevRemainingCTO, passes>>

Next ==
  \/ BuildAndSearch
  \/ MarkSegment
  \/ BeginForced
  \/ LoopEnter
  \/ ForceExtendBreak
  \/ AddForcedSegments
  \/ Finish

Spec == Init /\ [][Next]_vars

(***************************************************************************)
(* The horizon of buildCalendar.  Day ordinal 0 is January 1 of EpochYear, *)
(* a Sunday.  params.year is NoYear when absent; params.now is the ordinal *)
(* of the local date of the run.                                           *)
(***************************************************************************)
EpochYear == 2023

YearSpan == 2

NoYear == 0

Years == EpochYear .. EpochYear + YearSpan

IsLeapYear(y) == y % 4 = 0 /\ (y % 100 # 0 \/ y % 400 = 0)

DaysInYear(y) == IF IsLeapYear(y) THEN 366 ELSE 365

\* new Date(y, 0, 1)
RECURSIVE Jan1(_)
Jan1(y) == IF y <= EpochYear THEN 0 ELSE Jan1(y - 1) + DaysInYear(y - 1)

\* new Date(y, 11, 31)
Dec31(y) == Jan1(y + 1) - 1

getFullYear(d) == CHOOSE y \in Years : Jan1(y) <= d /\ d <= Dec31(y)

targetYear(p) == IF p.year # NoYear THEN p.year ELSE getFullYear(p.now)

\* A mutation of startOfYear: the horizon starts on January 1 in every case.
startOfYearAlwaysJan1(p) == Jan1(targetYear(p))

startOfYear(p) ==
  IF targetYear(p) = getFullYear(p.now) THEN p.now ELSE Jan1(targetYear(p))

endOfYear(p) == Dec31(targetYear(p))

Horizon(p) ==
  [startOfYear |-> startOfYear(p), endOfYear |-> endOfYear(p),
   holidays |-> p.holidays, companyDaysOff |-> p.companyDaysOff, tz |-> p.tz]

\* Dates of runs: the first and the last day of a year, the days around the
\* end of February, a day of July and a day of the last week of the year.
Nows(y) ==
  {Jan1(y), Jan1(y) + 58, Jan1(y) + 59, Jan1(y) + 200, Dec31(y) - 5, Dec31(y)}

CalendarParams ==
  { [year |-> y, now |-> now, holidays |-> <<>>, companyDaysOff |-> <<>>, tz |-> 0] :
      y \in Years \cup {NoYear}, now \in UNION { Nows(cur) : cur \in Years } }

InitCalendar ==
  /\ params \in CalendarParams
  /\ Called

\* Step 1 of optimizeDays for a run on the date params.now.
BuildCalendar ==
  /\ pc = "start"
  /\ calendar' = buildCalendar(Horizon(params))
  /\ pc' = "built"
  /\ UNCHANGED <<segments, pruned, params, bestSolution, breaks, segI, brkI, remainingCTO,
                 prevRemainingCTO, stats, passes>>

NextCalendar == BuildCalendar

SpecCalendar == InitCalendar /\ [][NextCalendar]_vars

\* Holiday lists with one entry, and with two entries for one date.
CalendarHolidayLists(start) ==
  { <<>>,
    <<[date |-> start + 1, name |-> "h1"]>>,
    <<[date |-> start + 1, name |-> "h1"], [date |-> start + 1, name |-> "h2"]>>,
    <<[date |-> start + 1, name |-> "h2"], [date |-> start + 2, name |-> "h3"],
      [date |-> start + 1, name |-> "h1"]>> }

\* Company lists: a recurring rule whose first and last dates fall on its
\* weekday, a rule with its dates inverted, and lists with two entries that
\* match one date.
CalendarCompanyLists(start) ==
  { <<>>,
    <<RecurringDayOff(getDay(start + 2), start + 2, start + 16, "c2")>>,
    <<RecurringDayOff(getDay(start + 2), start + 16, start + 2, "c2")>>,
    <<SingleDayOff(start + 2, "c1"),
      RecurringDayOff(getDay(start + 2), start + 2, start + 16, "c2")>>,
    <<RecurringDayOff(getDay(start + 2), start + 2, start + 16, "c2"),
      SingleDayOff(start + 9, "c1")>>,
    <<SingleDayOff(start + 2, "c1"), SingleDayOff(start + 2, "c3")>> }

\* Runs of the current year on the days of the fourth week before its end.
DaysOffParams ==
  UNION { UNION {
    { [year |-> NoYear, now |-> now, holidays |-> hs, companyDaysOff |-> cs,
       tz |-> tz] :
        hs \in CalendarHolidayLists(now), tz \in TzOffsets(cs) } :
      cs \in CalendarCompanyLists(now) } :
      now \in UNION { { Dec31(y) - 20 - k : k \in StartDays } : y \in Years } }

InitDaysOff ==
  /\ params \in DaysOffParams
  /\ Called

SpecDaysOff == InitDaysOff /\ [][NextCalendar]_vars

\* Invocations on a horizon long enough for the DP search to choose two
\* segments of the strategy the spacing apart, with the quota two windows of
\* the shortest length over a weekend cost, or one day more.
TwoBreakHorizon(strategy) ==
  2 * (getDynamicSpacing(strategy) + getStrategyParams(strategy).minBreak) - 1
    + ExtraDays

TwoBreakQuota(strategy) == 2 * (getStrategyParams(strategy).minBreak - 2)

TwoBreakParams ==
  { [strategy |-> st, numberOfDays |-> q, startOfYear |-> start,
     endOfYear |-> start + TwoBreakHorizon(st) - 1, holidays |-> <<>>,
     companyDaysOff |-> <<>>, tz |-> 0] :
      st \in Strategies, q \in {0, 1}, start \in StartDays }

InitTwoBreaks ==
  /\ \E p \in TwoBreakParams :
       params = [p EXCEPT !.numberOfDays = TwoBreakQuota(p.strategy) + p.numberOfDays]
  /\ Called

SpecTwoBreaks == InitTwoBreaks /\ [][Next]_vars

\* Calls of pruneCandidateSegments(segments, availableCTO) on the sorted
\* candidate list of a short calendar, and on that list with one candidate in
\* it twice, as two objects of the same window.
PruneHorizon(strategy) == getStrategyParams(strategy).minBreak + 1 + ExtraDays

PruneQuotas == 1 .. 3

PruneParams ==
  { [strategy |-> st, numberOfDays |-> q, startOfYear |-> start,
     endOfYear |-> start + PruneHorizon(st) - 1, holidays |-> <<>>,
     companyDaysOff |-> <<>>, tz |-> 0] :
      st \in Strategies, q \in PruneQuotas, start \in StartDays }

Duplicated(list, k) ==
  [j \in 1 .. Len(list) + 1 |-> IF j <= k THEN list[j] ELSE list[j - 1]]

PruneInputs(p) ==
  LET list == GeneratedSegments(p, buildCalendar(p))
  IN {list} \cup {Duplicated(list, k) : k \in 1 .. Len(list)}

InitPrune ==
  /\ params \in PruneParams
  /\ segments \in PruneInputs(params)
  /\ pruned = <<>>
  /\ pc = "start"
  /\ calendar = <<>>
  /\ bestSolution = EmptySolution
  /\ breaks = <<>>
  /\ segI = 1
  /\ brkI = 1
  /\ remainingCTO = 0
  /\ prevRemainingCTO = 0
  /\ stats = NoStats
  /\ passes = 0

PruneCandidateSegments ==
  /\ pc = "start"
  /\ pruned' = pruneCandidateSegments(segments, params.numberOfDays)
  /\ pc' = "pruned"
  /\ UNCHANGED <<segments, params, calendar, bestSolution, breaks, segI, brkI,
                 remainingCTO, prevRemainingCTO, stats, passes>>

NextPrune == PruneCandidateSegments

SpecPrune == InitPrune /\ [][NextPrune]_vars

\* Invocations with a strategy that is absent or not one of the five names.
InitUnrecognised ==
  /\ params \in ParamsOf(UnrecognisedStrategies)
  /\ Called

SpecUnrecognised == InitUnrecognised /\ [][Next]_vars

(***************************************************************************)
(* Properties                                                              *)
(***************************************************************************)
Quota == params.numberOfDays

WorkDays == {i \in DOMAIN calendar : ~isFixedOff(calendar[i])}

\* The sum of a sequence of numbers, by a function on its prefixes.
TotalOf(vals) ==
  LET f[k \in 0 .. Len(vals)] == IF k = 0 THEN 0 ELSE f[k - 1] + vals[k]
  IN f[Len(vals)]

CtoDaysOf(brks) == TotalOf([k \in 1 .. Len(brks) |-> brks[k].ctoDays])

\* The breaks of the DP search come first in the list; the others are filler.
DPBreaks == 1 .. Min(Len(breaks), Len(bestSolution.segments))

FillerBreaks == (Len(bestSolution.segments) + 1) .. Len(breaks)

\* A break of the DP search that forced extension made longer.
Extended(k) == breaks[k].totalDays > bestSolution.segments[k].totalDays

\* The number of flags among weekend, public holiday and company day off.
FlagCount(day) ==
  (IF day.isWeekend THEN 1 ELSE 0) + (IF day.isPublicHoliday THEN 1 ELSE 0)
  + (IF day.isCompanyDayOff THEN 1 ELSE 0)

\* C1: in every state of a run (after the marking of each segment, after each
\* forced extension and after the forced filler) a day with is_cto is no
\* weekend, no public holiday and no company day off.
C1_CtoOnlyOnWorkdays ==
  \A i \in DOMAIN calendar :
    calendar[i].isCTO =>
      /\ ~calendar[i].isWeekend
      /\ ~calendar[i].isPublicHoliday
      /\ ~calendar[i].isCompanyDayOff

\* A finished run in which the DP marking, a forced extension and the forced
\* filler each spent quota, on a calendar with all three kinds of fixed-off day.
C1_Witness ==
  /\ pc = "done"
  /\ \E k \in DPBreaks : Extended(k)
  /\ FillerBreaks # {}
  /\ \E i \in DOMAIN calendar : calendar[i].isPartOfBreak /\ calendar[i].isWeekend
  /\ \E i \in DOMAIN calendar : calendar[i].isPublicHoliday
  /\ \E i \in DOMAIN calendar : calendar[i].isCompanyDayOff

\* C2: in every state of a run a day with is_cto has in_break.
C2_CtoInBreak ==
  \A i \in DOMAIN calendar : calendar[i].isCTO => calendar[i].isPartOfBreak

\* A state right after a forced extension spent quota on a day.
C2_Witness ==
  /\ pc = "extend"
  /\ brkI > 1
  /\ brkI - 1 \in DPBreaks
  /\ Extended(brkI - 1)
  /\ LET d == breaks[brkI - 1].days[Len(breaks[brkI - 1].days)]
     IN calendar[d].isCTO /\ calendar[d].isPartOfBreak

\* C3: the sum of cto_days over the breaks is at most Q in every state, and in
\* the result it is Q whenever the horizon has at least Q non-fixed-off days.
C3_QuotaSpent ==
  /\ CtoDaysOf(breaks) <= Quota
  /\ (pc = "done" /\ Cardinality(WorkDays) >= Quota) => CtoDaysOf(breaks) = Quota

\* A result where the DP search took two segments and left quota, and the
\* extension and the filler spent the rest.
C3_Witness ==
  /\ pc = "done"
  /\ Len(bestSolution.segments) = 2
  /\ bestSolution.totalCTOUsed < Quota
  /\ FillerBreaks # {}
  /\ Cardinality(WorkDays) >= Quota
  /\ CtoDaysOf(breaks) = Quota

\* C4: when Q exceeds the number of non-fixed-off days, the result has is_cto
\* on exactly the non-fixed-off days and stats.totalCTODays is their number.
C4_SurplusQuota ==
  (pc = "done" /\ Quota > Cardinality(WorkDays)) =>
    /\ \A i \in DOMAIN calendar : calendar[i].isCTO <=> ~isFixedOff(calendar[i])
    /\ stats.totalCTODays = Cardinality(WorkDays)

\* A result with surplus quota on a calendar with working and fixed-off days,
\* part of it spent by the DP search.
C4_Witness ==
  /\ pc = "done"
  /\ Quota > Cardinality(WorkDays)
  /\ Cardinality(WorkDays) >= 5
  /\ WorkDays # DOMAIN calendar
  /\ Len(bestSolution.segments) >= 1
  /\ stats.totalCTODays = Cardinality(WorkDays)

\* C5: in every state any two distinct breaks have disjoint date ranges.
C5_BreaksDisjoint ==
  \A a, b \in 1 .. Len(breaks) :
    a # b => \/ breaks[a].endDate < breaks[b].startDate
             \/ breaks[b].endDate < breaks[a].startDate

\* A result with an extended DP break, a second DP break and a filler break
\* whose date range spans fixed-off days it skipped.
C5_Witness ==
  /\ pc = "done"
  /\ Len(bestSolution.segments) = 2
  /\ \E k \in DPBreaks : Extended(k)
  /\ \E k \in FillerBreaks :
       breaks[k].endDate - breaks[k].startDate + 1 > breaks[k].totalDays

\* C6: the breaks of the result are sorted by start_date ascending.
C6_BreaksSorted ==
  pc = "done" =>
    \A k \in 1 .. (Len(breaks) - 1) : breaks[k].startDate <= breaks[k + 1].startDate

\* C7 as stated: for every break,
\* total_days = cto_days + public_holidays + weekends + company_days_off.
C7_TotalIsSumOfCounts ==
  \A k \in 1 .. Len(breaks) :
    breaks[k].totalDays = breaks[k].ctoDays + breaks[k].publicHolidays
                          + breaks[k].weekends + breaks[k].companyDaysOff

\* The fixed-off days of a break's days list, and those with several flags.
FixedOffDaysOf(brk) ==
  {k \in 1 .. Len(brk.days) : isFixedOff(calendar[brk.days[k]])}

MultiFlagDaysOf(brk) ==
  {k \in 1 .. Len(brk.days) : FlagCount(calendar[brk.days[k]]) > 1}

\* C7 amended: for every break, total_days is cto_days plus the number of
\* fixed-off days of its days list, and is at most cto_days + public_holidays
\* + weekends + company_days_off, with equality exactly when no day of the
\* break has more than one of the three fixed-off flags.
C7_TotalVersusCounts ==
  \A k \in 1 .. Len(breaks) :
    LET b == breaks[k]
        sum == b.ctoDays + b.publicHolidays + b.weekends + b.companyDaysOff
    IN /\ b.totalDays = b.ctoDays + Cardinality(FixedOffDaysOf(b))
       /\ b.totalDays <= sum
       /\ (b.totalDays = sum) <=> (MultiFlagDaysOf(b) = {})

\* A result with a break that holds a public holiday on a weekend, and one
\* that holds a weekend with no other flag.
C7_Witness ==
  /\ pc = "done"
  /\ \E k \in 1 .. Len(breaks) :
       /\ MultiFlagDaysOf(breaks[k]) # {}
       /\ breaks[k].publicHolidays > 0 /\ breaks[k].weekends > 0
  /\ \E k \in 1 .. Len(breaks) :
       MultiFlagDaysOf(breaks[k]) = {} /\ breaks[k].weekends > 0

\* C8: the stats of the result are the sums over the breaks, and
\* totalExtendedWeekends is totalCTODays.
C8_StatsAreSums ==
  pc = "done" =>
    /\ stats.totalCTODays = CtoDaysOf(breaks)
    /\ stats.totalPublicHolidays
         = TotalOf([k \in 1 .. Len(breaks) |-> breaks[k].publicHolidays])
    /\ stats.totalNormalWeekends
         = TotalOf([k \in 1 .. Len(breaks) |-> breaks[k].weekends])
    /\ stats.totalCompanyDaysOff
         = TotalOf([k \in 1 .. Len(breaks) |-> breaks[k].companyDaysOff])
    /\ stats.totalDaysOff
         = TotalOf([k \in 1 .. Len(breaks) |-> breaks[k].totalDays])
    /\ stats.totalExtendedWeekends = stats.totalCTODays

\* A result with several breaks in which every counter of the stats is
\* positive and totalDaysOff differs from totalCTODays.
C8_Witness ==
  /\ pc = "done"
  /\ Len(breaks) >= 2
  /\ stats.totalCTODays > 0
  /\ stats.totalPublicHolidays > 0
  /\ stats.totalNormalWeekends > 0
  /\ stats.totalCompanyDaysOff > 0
  /\ stats.totalDaysOff > stats.totalCTODays

\* C10: with Q = 0 no state of a run has a break, a day with is_cto or
\* in_break, or a non-zero counter in the stats, and the days array of the
\* result has one day for each date of the horizon.
C10_ZeroQuota ==
  Quota = 0 =>
    /\ breaks = <<>>
    /\ stats = NoStats
    /\ \A i \in DOMAIN calendar : ~calendar[i].isCTO /\ ~calendar[i].isPartOfBreak
    /\ pc = "done" =>
         /\ DOMAIN calendar = 0 .. (params.endOfYear - params.startOfYear)
         /\ \A i \in DOMAIN calendar : calendar[i].date = params.startOfYear + i

\* A result for Q = 0 on a calendar with three fixed-off days in a row where the
\* DP search may start a segment.
C10_Witness ==
  /\ pc = "done"
  /\ Quota = 0
  /\ breaks = <<>>
  /\ \E i \in DOMAIN calendar :
       /\ i >= getDynamicSpacing(params.strategy) - 1
       /\ i + 2 \in DOMAIN calendar
       /\ \A j \in i .. (i + 2) : isFixedOff(calendar[j])

\* The result of the run, once it has returned.
Returned == [days |-> calendar, breaks |-> breaks, stats |-> stats]

AsBalanced == [params EXCEPT !.strategy = "balanced"]

\* C11: for a strategy that is absent or not one of the five names, the
\* spacing is 21, the pruned candidate list handed to the DP search is the
\* list of "balanced" in the same order, and the returned days, breaks and
\* stats are those of "balanced" on the same other inputs.
C11_UnrecognisedIsBalanced ==
  /\ (params.strategy \notin Strategies /\ pc = "mark" /\ segI = 1) =>
       /\ getDynamicSpacing(params.strategy) = 21
       /\ getDynamicSpacing("balanced") = 21
       /\ CandidateSegments(params, calendar)
            = CandidateSegments(AsBalanced, buildCalendar(AsBalanced))
  /\ (params.strategy \notin Strategies /\ pc = "done") =>
       Returned = optimizeDays(AsBalanced)

\* A result for an unrecognised strategy with a break of the DP search of more
\* than 4 days and a public holiday in the horizon.
C11_Witness ==
  /\ pc = "done"
  /\ params.strategy \notin Strategies
  /\ \E k \in DPBreaks : bestSolution.segments[k].totalDays > 4
  /\ \E i \in DOMAIN calendar : calendar[i].isPublicHoliday

Max(S) == CHOOSE x \in S : \A y \in S : y <= x

\* The greatest sum of totalDays over the selections from candidates[k ..]
\* whose first member starts at minStart or later, in which each later member
\* starts at the end index of the one before plus spacing or later, and whose
\* sum of ctoUsed is at most cto.
RECURSIVE BestTotal(_, _, _, _, _)
BestTotal(candidates, k, minStart, cto, spacing) ==
  LET allowed == { j \in k .. Len(candidates) :
                     /\ candidates[j].startIdx >= minStart
                     /\ candidates[j].ctoUsed <= cto }
      totals == { candidates[j].totalDays
                    + BestTotal(candidates, j + 1, candidates[j].endIdx + spacing,
                                cto - candidates[j].ctoUsed, spacing) : j \in allowed }
  IN IF allowed = {} THEN 0 ELSE Max(totals)

\* C12: the selection dpExhaustiveSearch returns has the greatest sum of
\* total_days among all selections of the candidate list that keep the spacing
\* between consecutive members and spend at most Q, wherever the first member
\* starts.
C12_SearchIsOptimal ==
  (pc = "mark" /\ segI = 1) =>
    bestSolution.totalDaysOff
      = BestTotal(CandidateSegments(params, calendar), 1, 0, params.numberOfDays,
                  getDynamicSpacing(params.strategy))

\* The spacing and the window range the claims state for each strategy.
StatedSpacing ==
  [longWeekends |-> 7, miniBreaks |-> 14, weekLongBreaks |-> 21,
   extendedVacations |-> 30, balanced |-> 21]

StatedRange ==
  [longWeekends |-> 3 .. 4, miniBreaks |-> 5 .. 6, weekLongBreaks |-> 7 .. 9,
   extendedVacations |-> 10 .. 15, balanced |-> 3 .. 15]

Chosen == bestSolution.segments

\* C13: consecutive segments chosen by the DP search satisfy
\* next.start_idx >= prev.end_idx + S with S = 7, 14, 21, 30, 21 for the five
\* strategies, the sum of their cto_used is at most Q, and the total_days of
\* each lies in the window range of the strategy.
C13_ChosenSegments ==
  /\ \A k \in 1 .. Len(Chosen) - 1 :
       Chosen[k + 1].startIdx >= Chosen[k].endIdx + StatedSpacing[params.strategy]
  /\ SumSeq([k \in 1 .. Len(Chosen) |-> Chosen[k].ctoUsed]) <= params.numberOfDays
  /\ \A k \in 1 .. Len(Chosen) :
       Chosen[k].totalDays \in StatedRange[params.strategy]

\* Two segments chosen exactly the spacing apart, spending the whole quota,
\* for the strategy of the widest spacing.
C13_Witness ==
  /\ pc = "done"
  /\ params.strategy = "extendedVacations"
  /\ Len(Chosen) = 2
  /\ Chosen[2].startIdx = Chosen[1].endIdx + StatedSpacing[params.strategy]
  /\ Chosen[1].ctoUsed + Chosen[2].ctoUsed = params.numberOfDays

\* The calendar date <<year, month, day>> of a day ordinal.
DaysInMonth(y, m) ==
  IF m = 2 THEN (IF IsLeapYear(y) THEN 29 ELSE 28)
  ELSE IF m \in {4, 6, 9, 11} THEN 30 ELSE 31

RECURSIVE DaysBeforeMonth(_, _)
DaysBeforeMonth(y, m) ==
  IF m = 1 THEN 0 ELSE DaysBeforeMonth(y, m - 1) + DaysInMonth(y, m - 1)

Civil(d) ==
  LET y == getFullYear(d)
      n == d - Jan1(y)
      m == CHOOSE k \in 1 .. 12 :
             DaysBeforeMonth(y, k) <= n /\ n < DaysBeforeMonth(y, k) + DaysInMonth(y, k)
  IN <<y, m, n - DaysBeforeMonth(y, m) + 1>>

\* The calendar date that follows a calendar date.
NextCivil(c) ==
  IF c[3] < DaysInMonth(c[1], c[2]) THEN <<c[1], c[2], c[3] + 1>>
  ELSE IF c[2] < 12 THEN <<c[1], c[2] + 1, 1>>
  ELSE <<c[1] + 1, 1, 1>>

\* Zeller's congruence: 0 for a Saturday, 1 for a Sunday, 2 for a Monday, ...
Zeller(c) ==
  LET m == IF c[2] < 3 THEN c[2] + 12 ELSE c[2]
      y == IF c[2] < 3 THEN c[1] - 1 ELSE c[1]
  IN (c[3] + ((13 * (m + 1)) \div 5) + (y % 100) + ((y % 100) \div 4)
        + ((y \div 100) \div 4) + 5 * (y \div 100)) % 7

LastIdx == CalLen(calendar) - 1

\* C14: days holds one Day per calendar date, each date the successor of the
\* one before, from start_date through December 31 of the target year, where
\* start_date is today when the target year is the current year and January 1
\* of the target year otherwise; is_weekend is true exactly on Saturdays and
\* Sundays.
C14_OneDayPerDate ==
  pc = "built" =>
    LET Y == IF params.year = NoYear THEN Civil(params.now)[1] ELSE params.year
    IN /\ CalLen(calendar) >= 1
       /\ Civil(calendar[0].date)
            = (IF Y = Civil(params.now)[1] THEN Civil(params.now) ELSE <<Y, 1, 1>>)
       /\ Civil(calendar[LastIdx].date) = <<Y, 12, 31>>
       /\ \A i \in 0 .. LastIdx - 1 :
            Civil(calendar[i + 1].date) = NextCivil(Civil(calendar[i].date))
       /\ \A i \in 0 .. LastIdx :
            calendar[i].isWeekend <=> Zeller(Civil(calendar[i].date)) \in {0, 1}

\* A run of the current year on February 28 of a leap year: the days go from
\* that date over February 29 to December 31.
C14_Witness ==
  /\ pc = "built"
  /\ params.year = NoYear
  /\ Civil(params.now) = <<EpochYear + 1, 2, 28>>
  /\ Civil(calendar[1].date) = <<EpochYear + 1, 2, 29>>
  /\ calendar[3].isWeekend /\ ~calendar[2].isWeekend
  /\ CalLen(calendar) = 308

\* The dates a company day off entry is stated to match.
StatedMatch(dayOff, date) ==
  IF dayOff.isRecurring
  THEN dayOff.startDate <= date /\ date <= dayOff.endDate
       /\ getDay(date) = dayOff.weekday
  ELSE dayOff.date = date

\* C15: a recurring company rule marks is_company_off on every date d of the
\* horizon with start_date <= d <= end_date, both endpoints included, whose
\* weekday is the weekday of the rule, and on no other date (a single-date
\* entry marks its date); a rule with start_date > end_date marks nothing.
C15_RecurringRuleDates ==
  pc = "built" =>
    \A i \in DOMAIN calendar :
      calendar[i].isCompanyDayOff
        <=> \E k \in 1 .. Len(params.companyDaysOff) :
              StatedMatch(params.companyDaysOff[k], calendar[i].date)

\* The first match of the scan of a list, 0 when none, as the claims state it.
StatedFirst(matches) == IF matches = {} THEN 0 ELSE CHOOSE k \in matches : \A j \in matches : k <= j

HolidayMatches(i) ==
  { k \in 1 .. Len(params.holidays) : params.holidays[k].date = calendar[i].date }

CompanyMatches(i) ==
  { k \in 1 .. Len(params.companyDaysOff) :
      DayOffMatches(params.companyDaysOff[k], calendar[i].date, params.tz) }

\* C16: a date that several entries of the holiday list, or of the company
\* list, match takes the name of the first matching entry in list order; the
\* flag is set once, the later entries change neither flag nor name, and a
\* date no entry matches has the flag unset and no name.
C16_FirstMatchWins ==
  pc = "built" =>
    \A i \in DOMAIN calendar :
      /\ calendar[i].isPublicHoliday <=> HolidayMatches(i) # {}
      /\ calendar[i].publicHolidayName
           = (IF HolidayMatches(i) = {} THEN Undefined
              ELSE params.holidays[StatedFirst(HolidayMatches(i))].name)
      /\ calendar[i].isCompanyDayOff <=> CompanyMatches(i) # {}
      /\ calendar[i].companyDayName
           = (IF CompanyMatches(i) = {} THEN Undefined
              ELSE params.companyDaysOff[StatedFirst(CompanyMatches(i))].name)

\* A date matched by two holiday entries that are not adjacent in the list
\* and a date matched by two company entries, each with the first name.
C16_Witness ==
  /\ pc = "built"
  /\ \E i \in DOMAIN calendar :
       /\ HolidayMatches(i) = {1, 3}
       /\ calendar[i].publicHolidayName = "h2"
  /\ \E i \in DOMAIN calendar :
       /\ Cardinality(CompanyMatches(i)) = 2
       /\ calendar[i].companyDayName = "c1"

\* A variant of a call of optimizeDays: a natural number that every step
\* makes smaller.  Width exceeds the number of breaks and of chosen segments.
Width == params.endOfYear - params.startOfYear + 3

Variant ==
  CASE pc = "start" -> 1 + (params.numberOfDays + 3) * Width
    [] pc = "mark" ->
         1 + (params.numberOfDays + 2) * Width + Len(bestSolution.segments) + 1 - segI
    [] pc = "while" -> 1 + prevRemainingCTO * Width
    [] pc = "extend" -> 2 + prevRemainingCTO * Width + Len(breaks) + 1 - brkI
    [] OTHER -> 0

\* The conditions under which the steps of optimizeDays are taken.
HasNextStep ==
  \/ pc = "start"
  \/ pc = "mark" /\ segI <= Len(bestSolution.segments)
  \/ pc = "mark" /\ segI > Len(bestSolution.segments)
  \/ pc = "while" /\ remainingCTO > 0 /\ remainingCTO < prevRemainingCTO
  \/ pc = "while" /\ ~(remainingCTO > 0 /\ remainingCTO < prevRemainingCTO)
  \/ pc = "extend" /\ brkI <= Len(breaks)
  \/ pc = "extend" /\ brkI > Len(breaks)

\* C17: the loop of forced extension and forced filler terminates: it runs
\* at most Q + 1 iterations, it has stopped only with the remaining quota 0 or
\* left unchanged by the last iteration, and every call of optimizeDays
\* returns: a call that has not returned has a next step, and every step
\* makes the variant, a natural number, smaller.
C17_LoopTerminates ==
  /\ [](passes <= params.numberOfDays + 1)
  /\ [](pc = "done" =>
          \/ remainingCTO = 0
          \/ passes >= 1 /\ remainingCTO = prevRemainingCTO)
  /\ [](pc # "done" => HasNextStep)
  /\ [](Variant >= 0)
  /\ [][Variant' < Variant]_vars

\* A call that returns after two iterations, the second of which spent nothing.
C17_Witness ==
  /\ pc = "done"
  /\ passes = 2
  /\ remainingCTO > 0
  /\ remainingCTO = prevRemainingCTO

IsOff(i) == isFixedOff(calendar[i]) \/ calendar[i].isCTO

StartIdxOf(k) == FindIndex(calendar, breaks[k].startDate)

EndIdxOf(k) == FindIndex(calendar, breaks[k].endDate)

\* Every date from the start date to the end date of break k is an off-day,
\* and one of them at least is a CTO day of the break.
OffRun(k) ==
  /\ StartIdxOf(k) >= 0 /\ StartIdxOf(k) <= EndIdxOf(k)
  /\ \A i \in StartIdxOf(k) .. EndIdxOf(k) : IsOff(i)
  /\ breaks[k].ctoDays >= 1
  /\ \E j \in 1 .. Len(breaks[k].days) : calendar[breaks[k].days[j]].isCTO

\* C18 as stated: every returned break is a maximal contiguous run of
\* off-days: the day before its start_date and the day after its end_date,
\* when inside the horizon, are neither fixed-off nor CTO days, every date
\* between start_date and end_date is off, and the break has a CTO day.
C18_BreaksMaximal ==
  pc = "done" =>
    \A k \in 1 .. Len(breaks) :
      /\ OffRun(k)
      /\ StartIdxOf(k) - 1 \in DOMAIN calendar => ~IsOff(StartIdxOf(k) - 1)
      /\ EndIdxOf(k) + 1 \in DOMAIN calendar => ~IsOff(EndIdxOf(k) + 1)

\* C18 as amended: every date from start_date through end_date of every
\* break is a fixed-off day or a CTO day and every break contains at least
\* one CTO day; the run need not be maximal.
C18_BreaksContiguous == \A k \in 1 .. Len(breaks) : OffRun(k)

\* A returned plan with a break of the DP search that a fixed-off day
\* follows, and a filler break that runs over fixed-off days it does not list
\* and ends next to another break.
C18_Witness ==
  /\ pc = "done"
  /\ \E k \in DPBreaks :
       /\ EndIdxOf(k) + 1 \in DOMAIN calendar
       /\ isFixedOff(calendar[EndIdxOf(k) + 1])
  /\ \E k \in FillerBreaks :
       /\ EndIdxOf(k) - StartIdxOf(k) + 1 > breaks[k].totalDays
       /\ EndIdxOf(k) + 1 \in DOMAIN calendar
       /\ calendar[EndIdxOf(k) + 1].isCTO

\* The window range of the strategy and the list generateCandidateSegments
\* returns for it on the calendar just built.
Range == getStrategyParams(params.strategy)

Generated == generateCandidateSegments(calendar, Range.minBreak, Range.maxBreak)

NonFixedOffIn(i, L) == {j \in i .. i + L - 1 : ~isFixedOff(calendar[j])}

\* The windows (i, L) the claim lists.
StatedWindows ==
  { w \in (0 .. CalLen(calendar) - 1) \X (Range.minBreak .. Range.maxBreak) :
      /\ w[1] + w[2] - 1 < CalLen(calendar)
      /\ NonFixedOffIn(w[1], w[2]) # {} }

\* C20: generateCandidateSegments(calendar, min_len, max_len) returns exactly
\* the windows (i, L) with min_len <= L <= max_len, i + L - 1 < N and at least
\* one non-fixed-off day inside, each exactly once; every candidate has
\* end_idx = start_idx + total_days - 1, cto_used equal to the number of
\* non-fixed-off days of the window, and 1 <= cto_used <= total_days.
C20_CandidateWindows ==
  (pc = "mark" /\ segI = 1) =>
    LET gen == Generated
        stated == StatedWindows
    IN /\ {<<gen[k].startIdx, gen[k].totalDays>> : k \in 1 .. Len(gen)} = stated
       /\ Len(gen) = Cardinality(stated)
       /\ \A k \in 1 .. Len(gen) :
            /\ gen[k].endIdx = gen[k].startIdx + gen[k].totalDays - 1
            /\ gen[k].ctoUsed
                 = Cardinality(NonFixedOffIn(gen[k].startIdx, gen[k].totalDays))
            /\ 1 <= gen[k].ctoUsed
            /\ gen[k].ctoUsed <= gen[k].totalDays

\* A calendar with a window of three fixed-off days, which the list leaves
\* out, and a returned window of four days that costs one day of quota.
C20_Witness ==
  /\ pc = "mark" /\ segI = 1
  /\ Range.minBreak = 3
  /\ \E i \in 0 .. CalLen(calendar) - 3 : NonFixedOffIn(i, 3) = {}
  /\ LET gen == Generated
     IN \E k \in 1 .. Len(gen) : gen[k].totalDays = 4 /\ gen[k].ctoUsed = 1

\* The positions of a candidate list whose candidates cost at most Q, and
\* those of them the claims state the pruner keeps: no candidate at another
\* position with the same start_idx and a cost of at most Q ends as late, costs
\* no more and has as many days.
Feasible(list) == {k \in 1 .. Len(list) : list[k].ctoUsed <= Quota}

StatedKept(list) ==
  { a \in Feasible(list) :
      ~ \E b \in Feasible(list) \ {a} :
          /\ list[b].startIdx = list[a].startIdx
          /\ list[b].endIdx >= list[a].endIdx
          /\ list[b].ctoUsed <= list[a].ctoUsed
          /\ list[b].totalDays >= list[a].totalDays }

\* C21: pruneCandidateSegments(segments, Q) returns, sorted by start_idx
\* ascending, exactly the candidates A with A.cto_used <= Q that no other
\* candidate B of the same start_idx with B.cto_used <= Q matches or beats in
\* end_idx, cto_used and total_days; a shorter window is dropped if and only
\* if a longer window from the same start costs no more quota.
C21_PruneKeeps ==
  (pc = "mark" /\ segI = 1) =>
    LET list == GeneratedSegments(params, calendar)
        out == pruneCandidateSegments(list, Quota)
        kept == StatedKept(list)
    IN /\ \A k \in 1 .. Len(out) - 1 : out[k].startIdx <= out[k + 1].startIdx
       /\ {out[k] : k \in 1 .. Len(out)} = {list[a] : a \in kept}
       /\ Len(out) = Cardinality(kept)
       /\ \A a \in Feasible(list) :
            a \notin kept
              <=> \E b \in Feasible(list) :
                    /\ list[b].startIdx = list[a].startIdx
                    /\ list[b].totalDays > list[a].totalDays
                    /\ list[b].ctoUsed <= list[a].ctoUsed

\* A candidate list of which the pruner drops one window for its cost and
\* another for a longer window of the same start and cost, and keeps a third.
C21_Witness ==
  /\ pc = "mark" /\ segI = 1
  /\ LET list == GeneratedSegments(params, calendar)
         kept == StatedKept(list)
     IN /\ Feasible(list) # 1 .. Len(list)
        /\ kept # Feasible(list)
        /\ kept # {}
        /\ Len(CandidateSegments(params, calendar)) = Cardinality(kept)

\* Two positions of a candidate list that hold the same window at the same
\* cost: each of the two candidates weakly dominates the other.
Tied(list, a, b) ==
  /\ a # b
  /\ list[a].startIdx = list[b].startIdx
  /\ list[a].endIdx = list[b].endIdx
  /\ list[a].ctoUsed = list[b].ctoUsed
  /\ list[a].totalDays = list[b].totalDays

Survivors(list, kept, a) ==
  Cardinality({k \in 1 .. Len(kept) : kept[k] = list[a]})

C23_FirstSegmentFromZero ==
  (pc = "mark" /\ segI = 1) =>
    LET list == CandidateSegments(params, calendar)
        spacing == getDynamicSpacing(params.strategy)
    IN \A k \in Feasible(list) :
         /\ bestSolution.segments # <<>>
         /\ dpExhaustiveSearch(<<list[k]>>, Quota, spacing).segments = <<list[k]>>

\* The DP state (idx, lastEnd, usedCTO) over a candidate list: the positions
\* of the candidates its loop does not skip, the total each of them yields as
\* the first segment, and the solution the claims state the loop keeps.
Eligible(list, idx, lastEnd, usedCTO) ==
  { j \in idx + 1 .. Len(list) :
      /\ list[j].startIdx >= lastEnd + getDynamicSpacing(params.strategy)
      /\ usedCTO + list[j].ctoUsed <= Quota }

RestAfter(list, j, usedCTO) ==
  dp(list, Quota, getDynamicSpacing(params.strategy), j, list[j].endIdx,
     usedCTO + list[j].ctoUsed)

ExtensionTotal(list, j, usedCTO) ==
  list[j].totalDays + RestAfter(list, j, usedCTO).totalDaysOff

FirstBest(list, idx, lastEnd, usedCTO) ==
  LET el == Eligible(list, idx, lastEnd, usedCTO)
      top == Max({ExtensionTotal(list, j, usedCTO) : j \in el})
  IN CHOOSE j \in el :
       /\ ExtensionTotal(list, j, usedCTO) = top
       /\ \A i \in el : ExtensionTotal(list, i, usedCTO) = top => j <= i

KeepsFirstBest(list, idx, lastEnd, usedCTO) ==
  LET kept == dp(list, Quota, getDynamicSpacing(params.strategy), idx, lastEnd,
                 usedCTO).segments
  IN IF Eligible(list, idx, lastEnd, usedCTO) = {}
     THEN kept = <<>>
     ELSE LET j == FirstBest(list, idx, lastEnd, usedCTO)
          IN kept = <<list[j]>> \o RestAfter(list, j, usedCTO).segments

\* The candidates that tie for the best total in the first DP state.
TiedFirst(list) ==
  LET el == Eligible(list, 0, 0 - 1, 0)
      top == Max({ExtensionTotal(list, j, 0) : j \in el})
  IN {j \in el : ExtensionTotal(list, j, 0) = top}

\* C24: in a DP state where several candidate extensions yield the same
\* total_days_off, the solution kept starts with the first such candidate of
\* the list; a later candidate replaces the best only with a strictly larger
\* total.  Stated of the first DP state and of every state that follows the
\* choice of a first segment.
C24_FirstBestWins ==
  (pc = "mark" /\ segI = 1) =>
    LET list == CandidateSegments(params, calendar)
    IN /\ KeepsFirstBest(list, 0, 0 - 1, 0)
       /\ bestSolution.segments
            = dp(list, Quota, getDynamicSpacing(params.strategy), 0, 0 - 1, 0).segments
       /\ \A j \in Eligible(list, 0, 0 - 1, 0) :
            KeepsFirstBest(list, j, list[j].endIdx, list[j].ctoUsed)

\* A search in which two candidates tie for the best total and the solution
\* starts with the earlier of them.
C24_Witness ==
  /\ pc = "mark" /\ segI = 1
  /\ LET list == CandidateSegments(params, calendar)
         tied == TiedFirst(list)
     IN /\ Eligible(list, 0, 0 - 1, 0) # {}
        /\ Cardinality(tied) >= 2
        /\ \A j \in tied : bestSolution.segments[1].startIdx <= list[j].startIdx
        /\ \E j \in tied : bestSolution.segments[1] = list[j]

\* What one iteration of the loop of forceExtendSegments does to the break
\* 'old' at position brkI, whose last day has index e, when it appends n days.
AppendsAfterEnd(old, new, e, n) ==
  /\ n >= 0
  /\ new.startDate = old.startDate
  /\ Len(new.days) = Len(old.days) + n
  /\ SubSeq(new.days, 1, Len(old.days)) = old.days
  /\ \A m \in 1 .. n :
       /\ new.days[Len(old.days) + m] = e + m
       /\ ~isFixedOff(calendar[e + m])
       /\ ~calendar[e + m].isPartOfBreak
       /\ calendar'[e + m].isCTO
       /\ calendar'[e + m].isPartOfBreak
  /\ new.totalDays = old.totalDays + n
  /\ new.ctoDays = old.ctoDays + n
  /\ new.endDate = calendar[e + n].date
  /\ remainingCTO' = remainingCTO - n
  /\ \A i \in DOMAIN calendar \ (e + 1 .. e + n) : calendar'[i] = calendar[i]
  /\ \/ remainingCTO' = 0
     \/ e + n = CalLen(calendar) - 1
     \/ isFixedOff(calendar[e + n + 1])
     \/ calendar[e + n + 1].isPartOfBreak

\* C25: forceExtendSegments takes the breaks in list order and appends to a
\* break only the days directly after its end_date: each appended day is not
\* fixed-off and was in no break, gets is_cto and in_break, and adds one to
\* total_days and cto_days and takes one from the remaining quota; the break
\* stops growing at the first next day that is fixed-off, in a break or past
\* the horizon, or when the quota is 0; its start_date and earlier days, and
\* every other break, stay as they were.
C25_ExtensionAppends ==
  [][(pc = "extend" /\ brkI <= Len(breaks)) =>
       /\ brkI' = brkI + 1
       /\ Len(breaks') = Len(breaks)
       /\ \A k \in 1 .. Len(breaks) : k # brkI => breaks'[k] = breaks[k]
       /\ AppendsAfterEnd(breaks[brkI], breaks'[brkI],
                          FindIndex(calendar, breaks[brkI].endDate),
                          breaks'[brkI].totalDays - breaks[brkI].totalDays)]_vars

\* The first break has been extended and the extension stopped with quota
\* left, and the second break is extended next.
C25_Witness ==
  /\ pc = "extend"
  /\ brkI = 2
  /\ brkI <= Len(breaks)
  /\ breaks[1].totalDays > bestSolution.segments[1].totalDays
  /\ remainingCTO > 0

DaysOf(k) == {breaks[k].days[j] : j \in 1 .. Len(breaks[k].days)}

\* C26: a break created by addForcedSegments has public_holidays, weekends
\* and company_days_off 0 and total_days = cto_days = the length of its days
\* list; its start_date and end_date are the first and last CTO days it added;
\* the fixed-off days between those dates are not in its days list and are in
\* no break; and no day between those dates belongs to another break.
C26_FillerBreaks ==
  \A k \in FillerBreaks :
    LET b == breaks[k]
    IN /\ b.publicHolidays = 0 /\ b.weekends = 0 /\ b.companyDaysOff = 0
       /\ b.totalDays = Len(b.days) /\ b.ctoDays = Len(b.days)
       /\ Len(b.days) >= 1
       /\ \A j \in 1 .. Len(b.days) : calendar[b.days[j]].isCTO
       /\ \A j \in 1 .. Len(b.days) - 1 : b.days[j] < b.days[j + 1]
       /\ b.startDate = calendar[b.days[1]].date
       /\ b.endDate = calendar[b.days[Len(b.days)]].date
       /\ \A i \in StartIdxOf(k) .. EndIdxOf(k) :
            /\ isFixedOff(calendar[i])
                 => i \notin DaysOf(k) /\ ~calendar[i].isPartOfBreak
            /\ \A other \in 1 .. Len(breaks) : other # k => i \notin DaysOf(other)

\* A filler break whose dates span a fixed-off day, in a result that also
\* holds a break of the DP search.
C26_Witness ==
  /\ pc = "done"
  /\ Len(bestSolution.segments) >= 1
  /\ \E k \in FillerBreaks :
       /\ \E i \in StartIdxOf(k) .. EndIdxOf(k) : isFixedOff(calendar[i])
       /\ breaks[k].totalDays < EndIdxOf(k) - StartIdxOf(k) + 1

\* The candidate list with only the candidates that cost more than Q removed.
WithinQuota(list) == SelectSeq(list, LAMBDA seg : seg.ctoUsed <= Quota)

\* C27: dominance pruning does not lower the optimum: the total_days_off of
\* dpExhaustiveSearch on the pruned list equals its total on the same list
\* with only the candidates of cto_used > Q removed.
C27_PruningKeepsOptimum ==
  (pc = "mark" /\ segI = 1) =>
    LET list == GeneratedSegments(params, calendar)
        spacing == getDynamicSpacing(params.strategy)
    IN dpExhaustiveSearch(pruneCandidateSegments(list, Quota), Quota, spacing).totalDaysOff
         = dpExhaustiveSearch(WithinQuota(list), Quota, spacing).totalDaysOff

\* The places (break, position) of the days lists that hold day i.
PlacesOf(i) ==
  { <<k, j>> \in (1 .. Len(breaks)) \X (1 .. CalLen(calendar)) :
      j <= Len(breaks[k].days) /\ breaks[k].days[j] = i }

\* C28: in the result a day has in_break exactly when it is in the days list
\* of exactly one break, and no day is in a list otherwise; every days list
\* has length total_days and holds exactly cto_days days with is_cto; so the
\* number of is_cto days of the calendar is the sum of cto_days.
C28_DaysLists ==
  pc = "done" =>
    /\ \A i \in DOMAIN calendar :
         /\ calendar[i].isPartOfBreak <=> Cardinality(PlacesOf(i)) = 1
         /\ Cardinality(PlacesOf(i)) <= 1
    /\ \A k \in 1 .. Len(breaks) :
         /\ Len(breaks[k].days) = breaks[k].totalDays
         /\ Len(breaks[k].days) <= CalLen(calendar)
         /\ Cardinality({j \in 1 .. Len(breaks[k].days) :
                           calendar[breaks[k].days[j]].isCTO}) = breaks[k].ctoDays
    /\ Cardinality({i \in DOMAIN calendar : calendar[i].isCTO}) = CtoDaysOf(breaks)

\* A result with a break of the DP search that holds fixed-off days and was
\* extended, and a filler break, and days in no break.
C28_Witness ==
  /\ pc = "done"
  /\ \E k \in DPBreaks : Extended(k) /\ breaks[k].ctoDays < breaks[k].totalDays
  /\ FillerBreaks # {}
  /\ \E i \in DOMAIN calendar : ~calendar[i].isPartOfBreak
  /\ \E i \in DOMAIN calendar : Cardinality(PlacesOf(i)) = 1

\* C29: after the first pass of forced extension and forced filler either
\* the remaining quota is 0 or every non-fixed-off day of the horizon is a CTO
\* day; so the loop body runs at most twice, and a second pass changes neither
\* the calendar nor the breaks.
C29_SecondPassIdle ==
  /\ []((passes >= 1 /\ pc \in {"while", "done"})
          => \/ remainingCTO = 0
             \/ \A i \in WorkDays : calendar[i].isCTO)
  /\ [](passes <= 2)
  /\ [][passes' = 2 => (calendar' = calendar /\ breaks' = breaks
                          /\ remainingCTO' = remainingCTO)]_vars

\* A second pass has run to its end, over a calendar with a workday and
\* breaks of both kinds.
C29_Witness ==
  /\ passes = 2
  /\ pc = "while"
  /\ brkI > Len(breaks)
  /\ WorkDays # {}
  /\ DPBreaks # {}
  /\ FillerBreaks # {}

\* The fields of a day that buildCalendar sets for good.
Built(day) ==
  <<day.date, day.isWeekend, day.isPublicHoliday, day.isCompanyDayOff,
    day.publicHolidayName, day.companyDayName>>

\* C30: after buildCalendar has returned no step changes the date,
\* is_weekend, is_public_holiday, is_company_off or names of a day, nor the
\* length or order of the days array; only is_cto and in_break change, and
\* only from false to true.
C30_CalendarFrame ==
  [][pc # "start" =>
       /\ DOMAIN calendar' = DOMAIN calendar
       /\ \A i \in DOMAIN calendar :
            /\ Built(calendar'[i]) = Built(calendar[i])
            /\ DOMAIN calendar'[i] = DOMAIN calendar[i]
            /\ calendar[i].isCTO => calendar'[i].isCTO
            /\ calendar[i].isPartOfBreak => calendar'[i].isPartOfBreak]_vars

\* A result whose calendar differs from the one buildCalendar returned, with
\* days marked by the DP search, by the extension and by the filler.
C30_Witness ==
  /\ pc = "done"
  /\ calendar # buildCalendar(params)
  /\ \E k \in DPBreaks : Extended(k)
  /\ FillerBreaks # {}
  /\ \E i \in DOMAIN calendar : calendar[i].isPartOfBreak /\ ~calendar[i].isCTO
  /\ \E i \in DOMAIN calendar : calendar[i].isCompanyDayOff

====
